---------------------------- MODULE Spec2Model ----------------------------
(***************************************************************************)
(* MediaHelp front end: the cloud-drive directory browsers.                *)
(*                                                                         *)
(*   yunpanSave  (two-step "save share" dialog: a source browser over the  *)
(*                shared tree and a destination browser over the own tree) *)
(*   folder picker (one browser, over the shared tree when a share url is  *)
(*                set and over the own tree otherwise)                     *)
(*                                                                         *)
(* Every remote call is a request appended to a list of outstanding calls; *)
(* the service answers them in any order, each with success or failure.    *)
(* A handler runs to its first await in one step; the continuation of a    *)
(* call runs in the step that resolves it.                                 *)
(***************************************************************************)
EXTENDS Integers, Sequences, FiniteSets, TLC

(* ----------------------------- bounds ---------------------------------- *)
\* outstanding remote calls of one dialog
MaxPending == 2
\* activations (dialog openings) of one dialog
MaxOpens == 2
\* entries in the selection of the source browser
MaxSel == 1
\* remote calls started by the user's actions on one dialog over a whole run
\* (the re-listing that follows a mutation is not counted)
MaxCalls == 4

(* ------------------------- values of the program ----------------------- *)
\* a property that is absent from a JavaScript object
Undef == "undefined"
\* the provider's id of the root of the own tree
RootId == "-11"
Tianyiyun == "tianyiyun"
\* the share link of the item (props.item.cloudLinks[0], props.url)
ShareLink == "https://cloud.189.cn/t/share"
\* a share link of a provider the front end has no browser for
OtherLink == "https://pan.quark.cn/s/share"
\* the task type of the provider
Cloud189Task == "cloud189_auto_save"

\* url.includes('cloud.189'): of the links the form is given (FormShareUrls)
\* only ShareLink holds the substring
IncludesCloud189(url) == url = ShareLink

getTaskByUrl(url) == IF IncludesCloud189(url) THEN Cloud189Task ELSE ""

getCloudTypeByUrl(url) == IF IncludesCloud189(url) THEN Tianyiyun ELSE ""

getCloudTypeByTask(task) == IF task = Cloud189Task THEN Tianyiyun ELSE ""

\* a record of the provider's listing
Item(i, n) == [id |-> i, name |-> n]

\* The shared tree, by file_id (Undef: no file_id, the root of the share).
ShareTree(id) ==
  CASE id = Undef -> [folderList |-> <<Item("A", "a.dir")>>,
                      fileList   |-> <<Item("F1", "f1.mkv")>>]
    [] id = "A"   -> [folderList |-> <<Item("B", "b.dir")>>,
                      fileList   |-> <<Item("F2", "f2.mkv"), Item("F3", "f3.mkv")>>]
    [] id = "B"   -> [folderList |-> <<>>,
                      fileList   |-> <<Item("F4", "f4.mkv")>>]
    [] OTHER      -> [folderList |-> <<>>, fileList |-> <<>>]

\* The own tree, by folder_id.
OwnTree(id) ==
  CASE id = RootId -> [folderList |-> <<Item("X", "x.dir")>>,
                       fileList   |-> <<Item("G1", "g1.mkv")>>]
    [] OTHER       -> [folderList |-> <<>>, fileList |-> <<>>]

ShareFolderIds == {"A", "B"}
OwnFolderIds == {"X"}
\* the parent of each folder (Undef / RootId: the root)
ShareParent(id) == IF id = "B" THEN "A" ELSE Undef
OwnParent(id) == RootId

\* The bodies the service may send for a directory: a list that is empty may
\* be left out, and so may fileListAO when both are empty.
Responses(listing) ==
  { [ao |-> a, folders |-> f, files |-> g,
     folderList |-> listing.folderList, fileList |-> listing.fileList] :
       a \in {x \in BOOLEAN : x \/ (listing.folderList = <<>> /\ listing.fileList = <<>>)},
       f \in {x \in BOOLEAN : x \/ listing.folderList = <<>>},
       g \in {x \in BOOLEAN : x \/ listing.fileList = <<>>} }

(* ------------------------------ entries -------------------------------- *)
\* { ...item, file_name: item.name, fid: item.id, dir: true }
DirEntry(item) ==
  [id |-> item.id, name |-> item.name, file_name |-> item.name,
   fid |-> item.id, dir |-> "true", file |-> Undef]

\* { ...item, file_name: item.name, fid: item.id, file: true }
FileEntry(item) ==
  [id |-> item.id, name |-> item.name, file_name |-> item.name,
   fid |-> item.id, dir |-> Undef, file |-> "true"]

\* the default parameter dir = {}
NoDir ==
  [id |-> Undef, name |-> Undef, file_name |-> Undef,
   fid |-> Undef, dir |-> Undef, file |-> Undef]

\* the object literal { fid: x }
FidOnly(x) == [NoDir EXCEPT !.fid = x]

\* if (x): undefined and '' are falsy
Truthy(x) == x # Undef /\ x # ""

\* String(x): the ids the service sends are strings, and so is '-11'; on a
\* string String is the string itself
String(x) == x

MapSeq(s, Op(_)) == [i \in 1..Len(s) |-> Op(s[i])]

\* a snapshot with the files ahead of the folders
NormalizeMutFilesFirst(res) ==
  LET folders == IF res.ao /\ res.folders THEN res.folderList ELSE <<>>
      files   == IF res.ao /\ res.files THEN res.fileList ELSE <<>>
  IN  MapSeq(files, FileEntry) \o MapSeq(folders, DirEntry)

\* [...(fileListAO?.folderList ?? []).map(..), ...(fileListAO?.fileList ?? []).map(..)]
Normalize(res) ==
  LET folders == IF res.ao /\ res.folders THEN res.folderList ELSE <<>>
      files   == IF res.ao /\ res.files THEN res.fileList ELSE <<>>
  IN  MapSeq(folders, DirEntry) \o MapSeq(files, FileEntry)

(* ------------------------------ path stack ----------------------------- *)
\* filePaths.findIndex((item) => item.fid === fid): 0-based, -1 when absent
FindIndex(fp, fid) ==
  IF \E i \in 1..Len(fp) : fp[i].fid = fid
  THEN (CHOOSE i \in 1..Len(fp) :
          fp[i].fid = fid /\ \A j \in 1..(i - 1) : fp[j].fid # fid) - 1
  ELSE -1

\* a push that never looks for the entry
UpdatePathsMutPush(dir, fp) ==
  IF Truthy(dir.fid) THEN Append(fp, dir) ELSE <<>>

\* a slice that stops one entry early
UpdatePathsMutSlice(dir, fp) ==
  IF Truthy(dir.fid)
  THEN LET index == FindIndex(fp, dir.fid)
       IN  IF index = -1 THEN Append(fp, dir) ELSE SubSeq(fp, 1, index)
  ELSE <<>>

\* a reset that is skipped
UpdatePathsMutNoReset(dir, fp) ==
  IF Truthy(dir.fid)
  THEN LET index == FindIndex(fp, dir.fid)
       IN  IF index = -1 THEN Append(fp, dir) ELSE SubSeq(fp, 1, index + 1)
  ELSE fp

\* the block "if (dir.fid) { ... } else { filePaths = []; }" of a listing
\* continuation: the module-level filePaths after it
UpdatePaths(dir, fp) ==
  IF Truthy(dir.fid)
  THEN LET index == FindIndex(fp, dir.fid)
       IN  IF index = -1 THEN Append(fp, dir) ELSE SubSeq(fp, 1, index + 1)
  ELSE <<>>

\* selfSavePaths(dir, filePaths): its parameter shadows the module-level
\* array, so only the in-place push reaches the caller's array; the two
\* re-assignments stay local.
selfSavePaths(dir, fp) ==
  IF Truthy(dir.fid) /\ FindIndex(fp, dir.fid) = -1 THEN Append(fp, dir) ELSE fp

\* paths[paths.length - 1]?.fid ?? fallback
LastFid(p, fallback) ==
  IF Len(p) = 0 THEN fallback
  ELSE IF p[Len(p)].fid = Undef THEN fallback ELSE p[Len(p)].fid

RemoveAt(s, i) == SubSeq(s, 1, i - 1) \o SubSeq(s, i + 1, Len(s))


(* ===================== yunpanSave: the save-share dialog ================ *)
VARIABLES
  cloudType,     \* props.item.cloudType
  open,          \* defineModel 'open'
  loading,       \* defineModel 'loading'
  currentStep,   \* 0: browsing the share, 1: browsing the destination
  fileList,      \* listing of the source browser
  selectedFile,  \* selection of the source browser
  paths,         \* breadcrumb of the source browser
  fileList2,     \* listing of the destination browser
  paths2,        \* breadcrumb of the destination browser
  filePaths,     \* the module-level array both listings work on
  pending,       \* outstanding remote calls, in the order issued
  issued,        \* history: number of remote calls the user's actions started
  epoch,         \* history: number of activations so far
  advanced,      \* history: OK was taken in step 0 in this activation
  dstOpened,     \* history: a destination listing of this activation was applied
  ev             \* history: the last handler step

wfVars ==
  <<cloudType, open, loading, currentStep, fileList, selectedFile, paths,
    fileList2, paths2, filePaths, pending, issued, epoch, advanced,
    dstOpened, ev>>

(* the state of the folder-picker dialog, modelled further down *)
VARIABLES
  pkCloudType,   \* cloudType of the task form, props.cloudType of the picker
  pkUrl,         \* url of the task form, props.url of the picker: '' browses
                 \*   the own tree, a share link the share
  pkTask,        \* currentTask.task of the task form
  pkOpen,        \* defineModel 'open'
  pkLoading,     \* loading
  pkFileList,    \* fileList
  pkPaths,       \* paths
  pkFilePaths,   \* the module-level filePaths
  pkPending,     \* outstanding remote calls, in the order issued
  pkIssued,      \* history: number of remote calls the user's actions started
  pkEpoch,       \* history: number of activations so far
  pkOnlyNav,     \* history: in this activation every call so far was a
                 \*   navigation issued with no call outstanding
  pkEv           \* history: the last handler step

pkVars ==
  <<pkCloudType, pkUrl, pkTask, pkOpen, pkLoading, pkFileList, pkPaths,
    pkFilePaths, pkPending, pkIssued, pkEpoch, pkOnlyNav, pkEv>>

vars == <<wfVars, pkVars>>

\* shareUrl = props.item?.cloudLinks?.[0] || ''
shareUrl == ShareLink

\* an outstanding call: the endpoint, the body sent, the dir its
\* continuation closes over, and (history) the activation that issued it;
\* refresh (history) marks the re-listing issued by a mutation's continuation
Req(api, data, dir, ep) ==
  [api |-> api, data |-> data, dir |-> dir, ep |-> ep, refresh |-> FALSE]

MarkRefresh(calls) == [i \in 1..Len(calls) |-> [calls[i] EXCEPT !.refresh = TRUE]]

\* getShareFileList up to its await: the calls it issues
getShareFileList(dir, ep) ==
  IF cloudType = Tianyiyun
  THEN << Req("shareList", [share_url |-> shareUrl, file_id |-> dir.fid], dir, ep) >>
  ELSE << >>

\* the folder_id getFileList sends
FolderIdOf(dir) == IF dir.fid = Undef THEN RootId ELSE String(dir.fid)

\* getFileList up to its await: the calls it issues
getFileList(dir, ep) ==
  IF cloudType = Tianyiyun
  THEN << Req("list", [folder_id |-> FolderIdOf(dir)], dir, ep) >>
  ELSE << >>

\* a target that is always the root
TargetFolderIdMutRoot(p2) == RootId

\* target_folder_id of the save call
TargetFolderId(p2) == LastFid(p2, RootId)

FileIdOf(item) ==
  [fileId |-> item.fid, fileName |-> item.file_name, isFolder |-> item.dir]

\* a save that ignores the selection
FileIdsMutAll(sel, list) == MapSeq(list, FileIdOf)

\* file_ids of the save call
FileIds(sel, list) ==
  IF Len(sel) > 0 THEN MapSeq(sel, FileIdOf) ELSE MapSeq(list, FileIdOf)

\* saveShareFile up to its await
saveShareFile(ep) ==
  IF cloudType = Tianyiyun
  THEN << Req("save",
              [share_url |-> shareUrl,
               target_folder_id |-> TargetFolderId(paths2),
               file_ids |-> FileIds(selectedFile, fileList)],
              NoDir, ep) >>
  ELSE << >>

\* a re-listing of the root
RefreshDirMutRoot(p2) == FidOnly(RootId)

\* the dir a create / rename / delete continuation re-lists
RefreshDir(p2) == FidOnly(LastFid(p2, RootId))

\* loading.value = true runs exactly when a listing or mutation call is issued
Issue(calls) ==
  /\ pending' = pending \o calls
  /\ issued' = issued + Len(calls)
  /\ loading' = IF calls # << >> THEN TRUE ELSE loading

\* the model's bounds leave room for these calls
Room(calls) ==
  /\ Len(pending) + Len(calls) <= MaxPending
  /\ issued + Len(calls) <= MaxCalls

\* the picker before it is mounted, while the save-share dialog runs
pkIdle ==
  /\ pkCloudType = ""
  /\ pkUrl = ""
  /\ pkTask = Undef
  /\ pkOpen = FALSE
  /\ pkLoading = FALSE
  /\ pkFileList = << >>
  /\ pkPaths = << >>
  /\ pkFilePaths = << >>
  /\ pkPending = << >>
  /\ pkIssued = 0
  /\ pkEpoch = 0
  /\ pkOnlyNav = TRUE
  /\ pkEv = [op |-> "init", calls |-> << >>]

Init ==
  /\ cloudType \in {Tianyiyun, ""}
  /\ open = FALSE
  /\ loading = FALSE
  /\ currentStep = 0
  /\ fileList = << >>
  /\ selectedFile = << >>
  /\ paths = << >>
  /\ fileList2 = << >>
  /\ paths2 = << >>
  /\ filePaths = << >>
  /\ pending = << >>
  /\ issued = 0
  /\ epoch = 0
  /\ advanced = FALSE
  /\ dstOpened = FALSE
  /\ ev = [op |-> "init", calls |-> << >>]
  /\ pkIdle

\* watch(open, ...) with value true: the dialog is opened
Open ==
  /\ ~open
  /\ epoch < MaxOpens
  /\ LET calls == getShareFileList(NoDir, epoch + 1)
     IN  /\ Room(calls)
         /\ Issue(calls)
         /\ ev' = [op |-> "open", calls |-> calls]
  /\ open' = TRUE
  /\ fileList' = << >>
  /\ fileList2' = << >>
  /\ paths' = << >>
  /\ paths2' = << >>
  /\ selectedFile' = << >>
  /\ currentStep' = 0
  /\ epoch' = epoch + 1
  /\ advanced' = FALSE
  /\ dstOpened' = FALSE
  /\ UNCHANGED <<cloudType, filePaths>>
  /\ UNCHANGED pkVars

\* the dialog is dismissed (v-model:open of the Modal); the watcher does
\* nothing for a false value
Close ==
  /\ open
  /\ open' = FALSE
  /\ ev' = [op |-> "close", calls |-> << >>]
  /\ UNCHANGED <<cloudType, loading, currentStep, fileList, selectedFile, paths,
                 fileList2, paths2, filePaths, pending, issued, epoch, advanced, dstOpened>>
  /\ UNCHANGED pkVars

Folders(list) == { list[i] : i \in { j \in 1..Len(list) : list[j].dir = "true" } }
Entries(list) == { list[i] : i \in 1..Len(list) }

\* what the visible FolderSelect can emit with navigate-to: a folder of its
\* listing, an entry of its breadcrumb, or nothing (the root)
NavTargets ==
  IF currentStep = 0
  THEN Folders(fileList) \cup Entries(paths) \cup {NoDir}
  ELSE Folders(fileList2) \cup Entries(paths2) \cup {NoDir}

navigateTo(dir) ==
  /\ open
  /\ LET calls == IF currentStep = 0
                  THEN getShareFileList(dir, epoch)
                  ELSE getFileList(dir, epoch)
     IN  /\ Room(calls)
         /\ Issue(calls)
         /\ ev' = [op |-> "navigateTo", dir |-> dir, step |-> currentStep,
                   calls |-> calls]
  /\ UNCHANGED <<cloudType, open, currentStep, fileList, selectedFile, paths,
                 fileList2, paths2, filePaths, epoch, advanced, dstOpened>>
  /\ UNCHANGED pkVars

\* an OK that saves in step 0
AdvanceCallsMutSave(list2, ep) == saveShareFile(ep)

\* onOk in step 0: the calls it issues
AdvanceCalls(list2, ep) == IF Len(list2) = 0 THEN getFileList(NoDir, ep) ELSE << >>

\* onOk, step 0 ("next")
onOkNext ==
  /\ open
  /\ currentStep = 0
  /\ currentStep' = 1
  /\ LET calls == AdvanceCalls(fileList2, epoch)
     IN  /\ Room(calls)
         /\ Issue(calls)
         /\ ev' = [op |-> "advance", again |-> advanced, opened |-> dstOpened,
                   calls |-> calls]
  /\ advanced' = TRUE
  /\ UNCHANGED <<cloudType, open, fileList, selectedFile, paths, fileList2,
                 paths2, filePaths, epoch, dstOpened>>
  /\ UNCHANGED pkVars

\* onOk, step 1 ("save"): with a provider that is not implemented
\* saveShareFile returns at once and the dialog closes with the success message
onOkSave ==
  /\ open
  /\ currentStep = 1
  /\ LET calls == saveShareFile(epoch)
     IN  /\ Room(calls)
         /\ pending' = pending \o calls
         /\ issued' = issued + Len(calls)
         /\ open' = IF calls = << >> THEN FALSE ELSE open
         /\ ev' = [op |-> "commit", calls |-> calls, step |-> currentStep,
                   success |-> (calls = << >>)]
  /\ UNCHANGED <<cloudType, loading, currentStep, fileList, selectedFile, paths,
                 fileList2, paths2, filePaths, epoch, advanced, dstOpened>>
  /\ UNCHANGED pkVars

\* a back that also empties the destination browser
onBackMutReset ==
  /\ open
  /\ currentStep = 1
  /\ currentStep' = 0
  /\ fileList2' = << >>
  /\ paths2' = << >>
  /\ ev' = [op |-> "back", calls |-> << >>]
  /\ UNCHANGED <<cloudType, open, loading, fileList, selectedFile, paths,
                 filePaths, pending, issued, epoch, advanced, dstOpened>>
  /\ UNCHANGED pkVars

onBack ==
  /\ open
  /\ currentStep = 1
  /\ currentStep' = 0
  /\ ev' = [op |-> "back", calls |-> << >>]
  /\ UNCHANGED <<cloudType, open, loading, fileList, selectedFile, paths,
                 fileList2, paths2, filePaths, pending, issued, epoch, advanced, dstOpened>>
  /\ UNCHANGED pkVars

FolderNames == {"", "new"}

\* createDir without the check of the name
createDirMutNoCheck(fileName) ==
  /\ open
  /\ currentStep = 1
  /\ LET calls ==
           IF cloudType = Tianyiyun
           THEN << Req("create",
                       [folder_name |-> fileName,
                        parent_id |-> LastFid(paths2, RootId)], NoDir, epoch) >>
           ELSE << >>
     IN  /\ Room(calls)
         /\ Issue(calls)
         /\ ev' = [op |-> "createDir", name |-> fileName, calls |-> calls,
                   message |-> Undef]
  /\ UNCHANGED <<cloudType, open, currentStep, fileList, selectedFile, paths,
                 fileList2, paths2, filePaths, epoch, advanced, dstOpened>>
  /\ UNCHANGED pkVars

\* message: what message.error shows before the early return
createDir(fileName) ==
  /\ open
  /\ currentStep = 1
  /\ LET calls ==
           IF fileName = "" THEN << >>
           ELSE IF cloudType = Tianyiyun
           THEN << Req("create",
                       [folder_name |-> fileName,
                        parent_id |-> LastFid(paths2, RootId)], NoDir, epoch) >>
           ELSE << >>
     IN  /\ Room(calls)
         /\ Issue(calls)
         /\ ev' = [op |-> "createDir", name |-> fileName, calls |-> calls,
                   message |-> IF fileName = "" THEN "error" ELSE Undef]
  /\ UNCHANGED <<cloudType, open, currentStep, fileList, selectedFile, paths,
                 fileList2, paths2, filePaths, epoch, advanced, dstOpened>>
  /\ UNCHANGED pkVars

\* the row being renamed carries its new name in file_name
Renamed(e) == [e EXCEPT !.file_name = "renamed"]

rename(file) ==
  /\ open
  /\ currentStep = 1
  /\ LET calls ==
           IF cloudType = Tianyiyun
           THEN << Req("rename",
                       [file_id |-> file.fid, new_name |-> file.file_name],
                       NoDir, epoch) >>
           ELSE << >>
     IN  /\ Room(calls)
         /\ Issue(calls)
         /\ ev' = [op |-> "rename", calls |-> calls]
  /\ UNCHANGED <<cloudType, open, currentStep, fileList, selectedFile, paths,
                 fileList2, paths2, filePaths, epoch, advanced, dstOpened>>
  /\ UNCHANGED pkVars

deleteFile(file) ==
  /\ open
  /\ currentStep = 1
  /\ LET calls ==
           IF cloudType = Tianyiyun
           THEN << Req("delete",
                       [file_ids |-> << [fileId |-> file.fid,
                                         fileName |-> file.file_name,
                                         isFolder |-> IF file.dir = "true" THEN 1 ELSE 0] >>],
                       NoDir, epoch) >>
           ELSE << >>
     IN  /\ Room(calls)
         /\ Issue(calls)
         /\ ev' = [op |-> "deleteFile", calls |-> calls]
  /\ UNCHANGED <<cloudType, open, currentStep, fileList, selectedFile, paths,
                 fileList2, paths2, filePaths, epoch, advanced, dstOpened>>
  /\ UNCHANGED pkVars

\* the checkbox of a row of the source listing: v-model:selected-file
Toggle(e) ==
  /\ open
  /\ currentStep = 0
  /\ IF \E i \in 1..Len(selectedFile) : selectedFile[i].fid = e.fid
     THEN selectedFile' = SelectSeq(selectedFile, LAMBDA x : x.fid # e.fid)
     ELSE /\ Len(selectedFile) < MaxSel
          /\ selectedFile' = Append(selectedFile, e)
  /\ ev' = [op |-> "toggle", calls |-> << >>]
  /\ UNCHANGED <<cloudType, open, loading, currentStep, fileList, paths,
                 fileList2, paths2, filePaths, pending, issued, epoch, advanced, dstOpened>>
  /\ UNCHANGED pkVars

(* ---- the service answers call i; the continuation of the call runs ---- *)
\* how the promise of the async handler settles: the awaited call is wrapped
\* in no try / catch, so its rejection rejects the handler's promise
Settled(ok) == IF ok THEN "fulfilled" ELSE "rejected"

\* pre: the breadcrumb of the browser the call belongs to, before the step
ResolveEv(r, ok, calls) ==
  [op |-> "resolve", req |-> r, ok |-> ok, calls |-> calls,
   pre |-> IF r.api = "shareList" THEN paths ELSE paths2,
   outcome |-> Settled(ok)]

\* the event of a listing response that is applied; body: which parts the
\* response carried
ListEv(r, res, pre) ==
  [op |-> "resolve", req |-> r, ok |-> TRUE, calls |-> << >>, pre |-> pre,
   outcome |-> Settled(TRUE),
   body |-> [ao |-> res.ao, folders |-> res.folders, files |-> res.files]]

\* getShareFileList after its await
ShareListDone(i, ok) ==
  LET r == pending[i] IN
  /\ r.api = "shareList"
  /\ loading' = FALSE
  /\ pending' = RemoveAt(pending, i)
  /\ issued' = issued
  /\ IF ok
     THEN /\ \E res \in Responses(ShareTree(r.data.file_id)) :
               /\ fileList' = Normalize(res)
               /\ ev' = ListEv(r, res, paths)
          /\ filePaths' = selfSavePaths(r.dir, UpdatePaths(r.dir, filePaths))
          /\ paths' = filePaths'
     ELSE /\ ev' = ResolveEv(r, ok, << >>)
          /\ UNCHANGED <<fileList, filePaths, paths>>
  /\ UNCHANGED <<cloudType, open, currentStep, selectedFile, fileList2, paths2,
                 epoch, advanced, dstOpened>>
  /\ UNCHANGED pkVars

\* getFileList after its await
ListDone(i, ok) ==
  LET r == pending[i] IN
  /\ r.api = "list"
  /\ loading' = FALSE
  /\ pending' = RemoveAt(pending, i)
  /\ issued' = issued
  /\ IF ok
     THEN /\ \E res \in Responses(OwnTree(r.data.folder_id)) :
               /\ fileList2' = Normalize(res)
               /\ ev' = ListEv(r, res, paths2)
          /\ filePaths' = selfSavePaths(r.dir, UpdatePaths(r.dir, filePaths))
          /\ paths2' = filePaths'
          /\ dstOpened' = (dstOpened \/ r.ep = epoch)
     ELSE /\ ev' = ResolveEv(r, ok, << >>)
          /\ UNCHANGED <<fileList2, filePaths, paths2, dstOpened>>
  /\ UNCHANGED <<cloudType, open, currentStep, fileList, selectedFile, paths,
                 epoch, advanced>>
  /\ UNCHANGED pkVars

\* a continuation that re-lists after a failure too
MutationDoneMutAlways(i, ok) ==
  LET r == pending[i] IN
  /\ r.api \in {"create", "rename", "delete"}
  /\ LET calls == MarkRefresh(getFileList(RefreshDir(paths2), epoch))
     IN  /\ pending' = RemoveAt(pending, i) \o calls
         /\ issued' = issued
         /\ loading' = (calls # << >>)
         /\ ev' = ResolveEv(r, ok, calls)
  /\ UNCHANGED <<cloudType, open, currentStep, fileList, selectedFile, paths,
                 fileList2, paths2, filePaths, epoch, advanced, dstOpened>>
  /\ UNCHANGED pkVars

\* createDir / rename / deleteFile after their await: .finally, then .then
MutationDone(i, ok) ==
  LET r == pending[i] IN
  /\ r.api \in {"create", "rename", "delete"}
  /\ LET calls == IF ok THEN MarkRefresh(getFileList(RefreshDir(paths2), epoch))
                  ELSE << >>
     IN  /\ pending' = RemoveAt(pending, i) \o calls
         /\ issued' = issued
         /\ loading' = (calls # << >>)
         /\ ev' = ResolveEv(r, ok, calls)
  /\ UNCHANGED <<cloudType, open, currentStep, fileList, selectedFile, paths,
                 fileList2, paths2, filePaths, epoch, advanced, dstOpened>>
  /\ UNCHANGED pkVars

\* onOk after await saveShareFile()
SaveDone(i, ok) ==
  LET r == pending[i] IN
  /\ r.api = "save"
  /\ pending' = RemoveAt(pending, i)
  /\ issued' = issued
  /\ open' = IF ok THEN FALSE ELSE open
  /\ ev' = ResolveEv(r, ok, << >>)
  /\ UNCHANGED <<cloudType, loading, currentStep, fileList, selectedFile, paths,
                 fileList2, paths2, filePaths, epoch, advanced, dstOpened>>
  /\ UNCHANGED pkVars

Next ==
  \/ Open
  \/ Close
  \/ \E dir \in NavTargets : navigateTo(dir)
  \/ onOkNext
  \/ onOkSave
  \/ onBack
  \/ \E n \in FolderNames : createDir(n)
  \/ \E f \in Entries(fileList2) : rename(Renamed(f))
  \/ \E f \in Entries(fileList2) : deleteFile(f)
  \/ \E e \in Entries(fileList) : Toggle(e)
  \/ \E i \in 1..Len(pending), ok \in BOOLEAN :
       \/ ShareListDone(i, ok)
       \/ ListDone(i, ok)
       \/ MutationDone(i, ok)
       \/ SaveDone(i, ok)



(* ================== properties of the save-share dialog ================= *)
IsListing(r) == r.api \in {"shareList", "list"}
IsMutation(r) == r.api \in {"create", "rename", "delete"}
Applied == ev.op = "resolve" /\ ev.ok /\ IsListing(ev.req)

\* what a directory of a tree lists: folders first, then files
Listed(listing) ==
  MapSeq(listing.folderList, DirEntry) \o MapSeq(listing.fileList, FileEntry)

\* C1: every entry of the source breadcrumb is a folder of the shared tree and
\* every entry of the destination breadcrumb is a folder (or the root) of the
\* own tree: neither browser's navigation puts an entry into the other's stack.
C1_StacksSeparate ==
  /\ \A i \in 1..Len(paths) : paths[i].fid \in ShareFolderIds
  /\ \A i \in 1..Len(paths2) : paths2[i].fid \in OwnFolderIds \cup {RootId}

\* C4: a successful navigate with no entry leaves the browser's path stack
\* empty whatever it held, and lists the root: folder_id '-11' for the own
\* tree, no file_id for the shared tree.
C4_ResetToRoot ==
  (Applied /\ ev.req.dir.fid = Undef) =>
     IF ev.req.api = "shareList"
     THEN /\ paths = << >>
          /\ ev.req.data.file_id = Undef
          /\ fileList = Listed(ShareTree(Undef))
     ELSE /\ paths2 = << >>
          /\ ev.req.data.folder_id = "-11"
          /\ fileList2 = Listed(OwnTree("-11"))

C4_Witness ==
  /\ Applied /\ ev.req.dir.fid = Undef
  /\ ev.pre # << >>
  /\ paths = << >>
  /\ ev.req.api = "shareList"

\* C5: an advance that follows an earlier advance of the same activation,
\* with a destination listing already shown, issues no listing call.
C5_NoReopen ==
  (ev.op = "advance" /\ ev.again /\ ev.opened) => ev.calls = << >>

\* C6: the save call is issued only by OK in step 1, which an advance
\* precedes; OK in step 0 issues no save call and leaves the dialog open.
C6_SaveOnlyInStep1 ==
  /\ \A i \in 1..Len(ev.calls) :
        ev.calls[i].api = "save" => (ev.op = "commit" /\ ev.step = 1 /\ advanced)
  /\ ev.op = "advance" => open

C6_Witness ==
  /\ ev.op = "commit"
  /\ Len(ev.calls) = 1 /\ ev.calls[1].api = "save"
  /\ currentStep = 1 /\ advanced /\ open

\* C7: file_ids of the save call is the selection when there is one and the
\* whole source listing otherwise, entry by entry: fileId the id, fileName
\* the name, isFolder true for a folder and absent for a file.
C7_Effective == IF selectedFile # << >> THEN selectedFile ELSE fileList

C7_EffectiveFileSet ==
  (ev.op = "commit" /\ ev.calls # << >>) =>
     LET f == ev.calls[1].data.file_ids
         c == C7_Effective
     IN  /\ Len(f) = Len(c)
         /\ \A i \in 1..Len(c) :
              /\ f[i].fileId = c[i].id
              /\ f[i].fileName = c[i].name
              /\ f[i].isFolder = IF c[i].id \in ShareFolderIds THEN "true" ELSE Undef

C7_Witness ==
  /\ ev.op = "commit" /\ ev.calls # << >>
  /\ selectedFile = << >>
  /\ Len(fileList) = 2
  /\ fileList[1].dir = "true" /\ fileList[2].file = "true"

\* C8: the re-listing issued when a create, rename or delete succeeds asks for
\* the directory on top of the destination breadcrumb, '-11' at the root.
C8_RefreshCurrent ==
  (ev.op = "resolve" /\ ev.ok /\ IsMutation(ev.req)) =>
     /\ Len(ev.calls) = 1
     /\ ev.calls[1].api = "list"
     /\ ev.calls[1].data.folder_id =
          IF paths2 = << >> THEN "-11" ELSE paths2[Len(paths2)].fid

C8_Witness ==
  /\ ev.op = "resolve" /\ ev.ok /\ IsMutation(ev.req)
  /\ paths2 # << >>
  /\ paths2[Len(paths2)].fid = "X"

\* C9: the response to that re-listing leaves the destination breadcrumb as
\* it was.
C9_RefreshKeepsStack ==
  (Applied /\ ev.req.refresh) => paths2 = ev.pre

\* C10: a listing response is applied only in the activation that issued
\* its call.
C10_NoStaleResponse ==
  Applied => ev.req.ep = epoch

\* C13: createDir with an empty name is refused in the dialog with an error
\* message: it issues no call, neither create nor listing, and leaves the
\* busy flag, the destination listing and the path stack as they were.
C13_EmptyNameRefused ==
  [][(ev'.op = "createDir" /\ ev'.name = "") =>
        /\ ev'.message = "error"
        /\ ev'.calls = << >>
        /\ pending' = pending
        /\ issued' = issued
        /\ loading' = loading
        /\ fileList2' = fileList2
        /\ paths2' = paths2
        /\ filePaths' = filePaths]_vars

C13_Witness ==
  /\ ev.op = "createDir" /\ ev.name = "" /\ ev.message = "error"
  /\ cloudType = Tianyiyun
  /\ loading /\ pending # << >>
  /\ fileList2 # << >>

\* C11: while a listing, create, rename or delete call is outstanding, the
\* busy flag is true; the completion of one call does not clear it while
\* another is still in flight.
C11_BusyWhileOutstanding ==
  (\E i \in 1..Len(pending) : IsListing(pending[i]) \/ IsMutation(pending[i]))
     => loading


(* ======================= the folder-picker dialog ======================= *)

\* getShareFileList of the picker up to its await
pkGetShareFileList(dir, ep) ==
  IF pkCloudType = Tianyiyun
  THEN << Req("shareList", [share_url |-> pkUrl, file_id |-> dir.fid], dir, ep) >>
  ELSE << >>

\* getFileList of the picker up to its await
pkGetFileList(dir, ep) ==
  IF pkCloudType = Tianyiyun
  THEN << Req("list", [folder_id |-> FolderIdOf(dir)], dir, ep) >>
  ELSE << >>

\* if (props.url) getShareFileList(dir) else getFileList(dir)
\* (the picker's calls are issued with ep 0: a call of the picker is not told
\* apart by the activation that issued it)
pkList(dir, ep) ==
  IF Truthy(pkUrl) THEN pkGetShareFileList(dir, ep) ELSE pkGetFileList(dir, ep)

\* the dir the picker's create / rename / delete continuation re-lists
pkRefreshDir(p) == FidOnly(LastFid(p, RootId))

pkIssue(calls) ==
  /\ pkPending' = pkPending \o calls
  /\ pkIssued' = pkIssued + Len(calls)
  /\ pkLoading' = IF calls # << >> THEN TRUE ELSE pkLoading

pkRoom(calls) ==
  /\ Len(pkPending) + Len(calls) <= MaxPending
  /\ pkIssued + Len(calls) <= MaxCalls

\* the save-share dialog before it is mounted, while the picker runs
wfIdle ==
  /\ cloudType = ""
  /\ open = FALSE
  /\ loading = FALSE
  /\ currentStep = 0
  /\ fileList = << >>
  /\ selectedFile = << >>
  /\ paths = << >>
  /\ fileList2 = << >>
  /\ paths2 = << >>
  /\ filePaths = << >>
  /\ pending = << >>
  /\ issued = 0
  /\ epoch = 0
  /\ advanced = FALSE
  /\ dstOpened = FALSE
  /\ ev = [op |-> "init", calls |-> << >>]

\* the task form after setup: cloudType = ref(''), url = ref(''),
\* currentTask = ref({})
pkInit ==
  /\ pkCloudType = ""
  /\ pkUrl = ""
  /\ pkTask = Undef
  /\ pkOpen = FALSE
  /\ pkLoading = FALSE
  /\ pkFileList = << >>
  /\ pkPaths = << >>
  /\ pkFilePaths = << >>
  /\ pkPending = << >>
  /\ pkIssued = 0
  /\ pkEpoch = 0
  /\ pkOnlyNav = TRUE
  /\ pkEv = [op |-> "init", calls |-> << >>]
  /\ wfIdle

\* watch(open, ...) with value true, run when the task form has set
\* selectFolderOpen.  It empties fileList, paths and filePaths and sets
\* loading to false; the next statement assigns lastShareUrl, which is declared
\* nowhere: the script is a module, the assignment throws a ReferenceError
\* and the watcher ends there, before its listing call (lines 55-59).
pkOpenDialog ==
  /\ pkEpoch < MaxOpens
  /\ pkOpen' = TRUE
  /\ pkFileList' = << >>
  /\ pkPaths' = << >>
  /\ pkFilePaths' = << >>
  /\ pkLoading' = FALSE
  /\ pkEpoch' = pkEpoch + 1
  /\ pkOnlyNav' = (pkPending = << >>)
  /\ pkEv' = [op |-> "open", calls |-> << >>, threw |-> TRUE]
  /\ UNCHANGED <<pkPending, pkIssued>>
  /\ UNCHANGED wfVars

\* what the task form's handlers leave of the picker when they do not open it;
\* the form is followed for as long as MaxOpens lets it open the picker again
pkFormOnly ==
  /\ pkEpoch < MaxOpens
  /\ pkEv' = [op |-> "form", calls |-> << >>]
  /\ UNCHANGED <<pkUrl, pkOpen, pkLoading, pkFileList, pkPaths, pkFilePaths,
                 pkPending, pkIssued, pkEpoch, pkOnlyNav>>
  /\ UNCHANGED wfVars

\* the share links currentTask.shareUrl may hold
FormShareUrls == {"", ShareLink, OtherLink}
\* the task types currentTask.task may be given
FormTasks == {"", Cloud189Task}

\* onSelectFolder of the task form, with currentTask.shareUrl = formUrl (the
\* field is written by its Input and by onSelect, which touch nothing else).
\* The form's handlers run while the picker is closed: the open picker is a
\* Modal over the form.
pkOnSelectFolder(formUrl) ==
  /\ ~pkOpen
  /\ IF ~Truthy(formUrl)
     THEN /\ pkFormOnly
          /\ UNCHANGED <<pkCloudType, pkTask>>
     ELSE /\ pkTask' = getTaskByUrl(formUrl)
          /\ pkCloudType' = getCloudTypeByUrl(formUrl)
          /\ pkUrl' = formUrl
          /\ pkOpenDialog

\* onSelecSelftFolder of the task form
pkOnSelecSelftFolder ==
  /\ ~pkOpen
  /\ pkCloudType' = getCloudTypeByTask(pkTask)
  /\ UNCHANGED pkTask
  /\ IF ~Truthy(getCloudTypeByTask(pkTask))
     THEN /\ pkFormOnly
     ELSE /\ pkUrl' = ""
          /\ pkOpenDialog

\* onShareUrlChange: the share link field of the form is edited
pkOnShareUrlChange(value) ==
  /\ ~pkOpen
  /\ pkTask' = getTaskByUrl(value)
  /\ pkCloudType' = getCloudTypeByUrl(value)
  /\ pkFormOnly

\* handleSearch of the task form
pkHandleSearch ==
  /\ ~pkOpen
  /\ pkCloudType' = IF Truthy(pkTask) THEN Tianyiyun ELSE pkCloudType
  /\ UNCHANGED pkTask
  /\ pkFormOnly

\* watch(() => props.task, ...): the form is given a task to edit
pkTaskWatch(task) ==
  /\ ~pkOpen
  /\ pkCloudType' = getCloudTypeByTask(task)
  /\ pkTask' = task
  /\ pkFormOnly

\* the task type Select of the form (v-model:value="currentTask.task")
pkTaskSelected(task) ==
  /\ ~pkOpen
  /\ pkTask' = task
  /\ UNCHANGED pkCloudType
  /\ pkFormOnly

\* the Modal is dismissed without OK
pkClose ==
  /\ pkOpen
  /\ pkOpen' = FALSE
  /\ pkEv' = [op |-> "close", calls |-> << >>]
  /\ UNCHANGED <<pkCloudType, pkUrl, pkTask, pkLoading, pkFileList, pkPaths, pkFilePaths,
                 pkPending, pkIssued, pkEpoch, pkOnlyNav>>
  /\ UNCHANGED wfVars

\* an onOk that always reports the root
pkOkEmitsMutRoot ==
  IF Truthy(pkUrl)
  THEN IF pkCloudType = Tianyiyun
       THEN << [event |-> "okShareTianyiyun", value |-> ""] >>
       ELSE << >>
  ELSE IF pkCloudType = Tianyiyun
       THEN << [event |-> "okSelfTianyiyun", value |-> RootId] >>
       ELSE << >>

\* the events onOk emits
pkOkEmits ==
  IF Truthy(pkUrl)
  THEN IF pkCloudType = Tianyiyun
       THEN << [event |-> "okShareTianyiyun", value |-> LastFid(pkPaths, "")] >>
       ELSE << >>
  ELSE IF pkCloudType = Tianyiyun
       THEN << [event |-> "okSelfTianyiyun", value |-> LastFid(pkPaths, RootId)] >>
       ELSE << >>

pkOnOk ==
  /\ pkOpen
  /\ pkOpen' = FALSE
  /\ pkEv' = [op |-> "ok", calls |-> << >>, emitted |-> pkOkEmits]
  /\ UNCHANGED <<pkCloudType, pkUrl, pkTask, pkLoading, pkFileList, pkPaths, pkFilePaths,
                 pkPending, pkIssued, pkEpoch, pkOnlyNav>>
  /\ UNCHANGED wfVars

\* what FolderSelect can emit with navigate-to
pkNavTargets == Folders(pkFileList) \cup Entries(pkPaths) \cup {NoDir}

pkNavigateTo(dir) ==
  /\ pkOpen
  /\ LET calls == pkList(dir, 0)
     IN  /\ pkRoom(calls)
         /\ pkIssue(calls)
         /\ pkEv' = [op |-> "navigateTo", dir |-> dir, calls |-> calls]
  /\ pkOnlyNav' = (pkOnlyNav /\ pkPending = << >>)
  /\ UNCHANGED <<pkCloudType, pkUrl, pkTask, pkOpen, pkFileList, pkPaths, pkFilePaths,
                 pkEpoch>>
  /\ UNCHANGED wfVars

\* the file manager is offered only over the own tree (url ? false : true)
pkCreateDir(fileName) ==
  /\ pkOpen
  /\ ~Truthy(pkUrl)
  /\ LET calls ==
           IF fileName = "" THEN << >>
           ELSE IF pkCloudType = Tianyiyun
           THEN << Req("create",
                       [folder_name |-> fileName,
                        parent_id |-> LastFid(pkPaths, RootId)], NoDir, 0) >>
           ELSE << >>
     IN  /\ pkRoom(calls)
         /\ pkIssue(calls)
         /\ pkOnlyNav' = (pkOnlyNav /\ calls = << >>)
         /\ pkEv' = [op |-> "createDir", name |-> fileName, calls |-> calls]
  /\ UNCHANGED <<pkCloudType, pkUrl, pkTask, pkOpen, pkFileList, pkPaths, pkFilePaths,
                 pkEpoch>>
  /\ UNCHANGED wfVars

pkRename(file) ==
  /\ pkOpen
  /\ ~Truthy(pkUrl)
  /\ LET calls ==
           IF pkCloudType = Tianyiyun
           THEN << Req("rename",
                       [file_id |-> file.fid, new_name |-> file.file_name],
                       NoDir, 0) >>
           ELSE << >>
     IN  /\ pkRoom(calls)
         /\ pkIssue(calls)
         /\ pkOnlyNav' = (pkOnlyNav /\ calls = << >>)
         /\ pkEv' = [op |-> "rename", calls |-> calls]
  /\ UNCHANGED <<pkCloudType, pkUrl, pkTask, pkOpen, pkFileList, pkPaths, pkFilePaths,
                 pkEpoch>>
  /\ UNCHANGED wfVars

pkDeleteFile(file) ==
  /\ pkOpen
  /\ ~Truthy(pkUrl)
  /\ LET calls ==
           IF pkCloudType = Tianyiyun
           THEN << Req("delete",
                       [file_ids |-> << [fileId |-> file.fid,
                                         fileName |-> file.file_name,
                                         isFolder |-> IF file.dir = "true" THEN 1 ELSE 0] >>],
                       NoDir, 0) >>
           ELSE << >>
     IN  /\ pkRoom(calls)
         /\ pkIssue(calls)
         /\ pkOnlyNav' = (pkOnlyNav /\ calls = << >>)
         /\ pkEv' = [op |-> "deleteFile", calls |-> calls]
  /\ UNCHANGED <<pkCloudType, pkUrl, pkTask, pkOpen, pkFileList, pkPaths, pkFilePaths,
                 pkEpoch>>
  /\ UNCHANGED wfVars

pkResolveEv(r, ok, calls) ==
  [op |-> "resolve", req |-> r, ok |-> ok, calls |-> calls, pre |-> pkPaths,
   outcome |-> Settled(ok)]

\* pkListDone with a failure branch that blanks the browser
pkListDoneMutClear(i, ok) ==
  LET r == pkPending[i] IN
  /\ IsListing(r)
  /\ pkLoading' = FALSE
  /\ pkPending' = RemoveAt(pkPending, i)
  /\ IF ok
     THEN /\ \E res \in Responses(IF r.api = "shareList"
                                  THEN ShareTree(r.data.file_id)
                                  ELSE OwnTree(r.data.folder_id)) :
               /\ pkFileList' = Normalize(res)
               /\ pkEv' = ListEv(r, res, pkPaths)
          /\ pkFilePaths' = selfSavePaths(r.dir, UpdatePaths(r.dir, pkFilePaths))
          /\ pkPaths' = pkFilePaths'
     ELSE /\ pkEv' = pkResolveEv(r, ok, << >>)
          /\ pkFileList' = << >>
          /\ pkFilePaths' = << >>
          /\ pkPaths' = << >>
  /\ UNCHANGED <<pkCloudType, pkUrl, pkTask, pkOpen, pkIssued, pkEpoch, pkOnlyNav>>
  /\ UNCHANGED wfVars

\* pkListDone that clears the busy flag in a .then, not a .finally
pkListDoneMutThen(i, ok) ==
  LET r == pkPending[i] IN
  /\ IsListing(r)
  /\ pkLoading' = IF ok THEN FALSE ELSE pkLoading
  /\ pkPending' = RemoveAt(pkPending, i)
  /\ IF ok
     THEN /\ \E res \in Responses(IF r.api = "shareList"
                                  THEN ShareTree(r.data.file_id)
                                  ELSE OwnTree(r.data.folder_id)) :
               /\ pkFileList' = Normalize(res)
               /\ pkEv' = ListEv(r, res, pkPaths)
          /\ pkFilePaths' = selfSavePaths(r.dir, UpdatePaths(r.dir, pkFilePaths))
          /\ pkPaths' = pkFilePaths'
     ELSE /\ pkEv' = pkResolveEv(r, ok, << >>)
          /\ UNCHANGED <<pkFileList, pkFilePaths, pkPaths>>
  /\ UNCHANGED <<pkCloudType, pkUrl, pkTask, pkOpen, pkIssued, pkEpoch, pkOnlyNav>>
  /\ UNCHANGED wfVars

\* getShareFileList / getFileList of the picker after the await
pkListDone(i, ok) ==
  LET r == pkPending[i] IN
  /\ IsListing(r)
  /\ pkLoading' = FALSE
  /\ pkPending' = RemoveAt(pkPending, i)
  /\ IF ok
     THEN /\ \E res \in Responses(IF r.api = "shareList"
                                  THEN ShareTree(r.data.file_id)
                                  ELSE OwnTree(r.data.folder_id)) :
               /\ pkFileList' = Normalize(res)
               /\ pkEv' = ListEv(r, res, pkPaths)
          /\ pkFilePaths' = selfSavePaths(r.dir, UpdatePaths(r.dir, pkFilePaths))
          /\ pkPaths' = pkFilePaths'
     ELSE /\ pkEv' = pkResolveEv(r, ok, << >>)
          /\ UNCHANGED <<pkFileList, pkFilePaths, pkPaths>>
  /\ UNCHANGED <<pkCloudType, pkUrl, pkTask, pkOpen, pkIssued, pkEpoch, pkOnlyNav>>
  /\ UNCHANGED wfVars

\* createDir / rename / deleteFile of the picker after the await
pkMutationDone(i, ok) ==
  LET r == pkPending[i] IN
  /\ IsMutation(r)
  /\ LET calls == IF ok THEN MarkRefresh(pkGetFileList(pkRefreshDir(pkPaths), 0))
                  ELSE << >>
     IN  /\ pkPending' = RemoveAt(pkPending, i) \o calls
         /\ pkLoading' = (calls # << >>)
         /\ pkEv' = pkResolveEv(r, ok, calls)
  /\ UNCHANGED <<pkCloudType, pkUrl, pkTask, pkOpen, pkFileList, pkPaths, pkFilePaths,
                 pkIssued, pkEpoch, pkOnlyNav>>
  /\ UNCHANGED wfVars

pkNext ==
  \/ \E formUrl \in FormShareUrls : pkOnSelectFolder(formUrl)
  \/ pkOnSelecSelftFolder
  \/ \E value \in FormShareUrls : pkOnShareUrlChange(value)
  \/ pkHandleSearch
  \/ \E task \in FormTasks : pkTaskWatch(task)
  \/ \E task \in FormTasks : pkTaskSelected(task)
  \/ pkClose
  \/ pkOnOk
  \/ \E dir \in pkNavTargets : pkNavigateTo(dir)
  \/ \E n \in FolderNames : pkCreateDir(n)
  \/ \E f \in Entries(pkFileList) : pkRename(Renamed(f))
  \/ \E f \in Entries(pkFileList) : pkDeleteFile(f)
  \/ \E i \in 1..Len(pkPending), ok \in BOOLEAN :
       \/ pkListDone(i, ok)
       \/ pkMutationDone(i, ok)

\* the save-share dialog alone
Spec == Init /\ [][Next]_vars

\* the folder picker alone
PickerSpec == pkInit /\ [][pkNext]_vars

\* the service answers an outstanding call of the picker
pkRespond ==
  \E i \in 1..Len(pkPending), ok \in BOOLEAN :
     \/ pkListDone(i, ok)
     \/ pkMutationDone(i, ok)

\* the folder picker with a service that answers every call, with success or
\* with failure, in the end
PickerFairSpec == pkInit /\ [][pkNext]_vars /\ WF_vars(pkRespond)

(* ===================== properties of the folder picker ================== *)
UniqueIds(p) == \A i, j \in 1..Len(p) : p[i].fid = p[j].fid => i = j

\* each entry is a child of the entry before it, the first a child of the root
AncestorChain(p) ==
  \A i \in 1..Len(p) :
     IF Truthy(pkUrl)
     THEN /\ p[i].fid \in ShareFolderIds
          /\ ShareParent(p[i].fid) = (IF i = 1 THEN Undef ELSE p[i - 1].fid)
     ELSE /\ p[i].fid \in OwnFolderIds
          /\ OwnParent(p[i].fid) = (IF i = 1 THEN RootId ELSE p[i - 1].fid)

\* C2: after navigations that each complete before the next begins, the path
\* stack is an ancestor chain and no id appears in it twice.
C2_AncestorChain ==
  pkOnlyNav => (UniqueIds(pkPaths) /\ AncestorChain(pkPaths))

C2_Witness ==
  /\ pkOnlyNav
  /\ Len(pkPaths) = 1
  /\ pkEv.op = "resolve" /\ pkEv.ok
  /\ Len(pkEv.pre) = 2

pkApplied == pkEv.op = "resolve" /\ pkEv.ok /\ IsListing(pkEv.req)

\* C3: a successful navigate to a folder that is in the stack truncates the
\* stack to end at that folder, and the listing becomes that folder's children.
C3_Jump ==
  (pkApplied /\ \E k \in 1..Len(pkEv.pre) : pkEv.pre[k].fid = pkEv.req.dir.fid) =>
     LET k == CHOOSE k \in 1..Len(pkEv.pre) : pkEv.pre[k].fid = pkEv.req.dir.fid
     IN  /\ pkPaths = SubSeq(pkEv.pre, 1, k)
         /\ pkFileList = Listed(IF pkEv.req.api = "shareList"
                                THEN ShareTree(pkEv.req.dir.fid)
                                ELSE OwnTree(pkEv.req.dir.fid))

C3_Witness ==
  /\ pkApplied
  /\ Len(pkEv.pre) = 2
  /\ pkEv.pre[1].fid = "A" /\ pkEv.pre[2].fid = "B"
  /\ pkEv.req.dir.fid = "A"
  /\ Len(pkPaths) = 1 /\ pkPaths[1].fid = "A"
  /\ pkFileList = Listed(ShareTree("A"))

\* C12: when a listing call fails, the busy flag is cleared, the listing, the
\* path stack and the dialog stay as they were, and the handler's promise is
\* rejected, not fulfilled.
C12_ListingFailure ==
  [][(pkEv'.op = "resolve" /\ IsListing(pkEv'.req) /\ ~pkEv'.ok) =>
        /\ pkLoading' = FALSE
        /\ pkFileList' = pkFileList
        /\ pkPaths' = pkPaths
        /\ pkFilePaths' = pkFilePaths
        /\ pkOpen' = pkOpen
        /\ pkEv'.outcome = "rejected"
        /\ pkEv'.calls = << >>]_vars

C12_Witness ==
  /\ pkEv.op = "resolve" /\ IsListing(pkEv.req) /\ ~pkEv.ok
  /\ pkEv.outcome = "rejected"
  /\ pkOpen /\ ~pkLoading
  /\ Len(pkPaths) = 2
  /\ pkFileList = Listed(ShareTree("B"))

\* C18: in the first activation of a picker over the shared tree, where every
\* call is a navigation, once the responses of all navigations, overlapping
\* or not, are applied, the path stack is an ancestor chain and the listing
\* shown is the listing of the stack's last entry (of the root when empty).
C18_OverlapKeepsChain ==
  (Truthy(pkUrl) /\ pkEpoch = 1 /\ pkApplied /\ pkPending = << >>) =>
     /\ UniqueIds(pkPaths)
     /\ AncestorChain(pkPaths)
     /\ pkFileList = Listed(ShareTree(LastFid(pkPaths, Undef)))

\* C21: when the service answers every call in the end, a busy flag that a
\* navigate, create, rename or delete has set is followed by a state with no
\* call outstanding and the flag false, whether the calls succeed or fail.
C21_BusyReleased ==
  pkLoading ~> (pkPending = << >> /\ ~pkLoading)

C21_Witness ==
  /\ pkEv.op = "resolve" /\ ~pkEv.ok
  /\ pkEv.req.refresh
  /\ pkPending = << >> /\ ~pkLoading
  /\ pkIssued >= 2

\* C23: OK in the picker with provider 'tianyiyun' emits exactly one event,
\* okShareTianyiyun when a share url is set and okSelfTianyiyun otherwise,
\* carrying the id on top of the path stack ('' resp. '-11' when the stack is
\* empty), and closes the dialog; opening the dialog starts from an empty
\* stack and an empty listing.
C23_ConfirmEmits ==
  /\ (pkEv.op = "ok" /\ pkCloudType = Tianyiyun) =>
        /\ Len(pkEv.emitted) = 1
        /\ pkEv.emitted[1].event =
             (IF Truthy(pkUrl) THEN "okShareTianyiyun" ELSE "okSelfTianyiyun")
        /\ pkEv.emitted[1].value =
             (IF pkPaths # << >> THEN pkPaths[Len(pkPaths)].fid
              ELSE IF Truthy(pkUrl) THEN "" ELSE "-11")
        /\ ~pkOpen
  /\ pkEv.op = "open" =>
        /\ pkOpen
        /\ pkPaths = << >> /\ pkFilePaths = << >>
        /\ pkFileList = << >>

C23_Witness ==
  /\ pkEv.op = "ok" /\ pkCloudType = Tianyiyun
  /\ Truthy(pkUrl)
  /\ pkPaths = << >> /\ pkFileList = Listed(ShareTree(Undef))
  /\ pkEv.emitted = << [event |-> "okShareTianyiyun", value |-> ""] >>
  /\ ~pkOpen

\* the directory of the provider's tree that the applied response lists
C24_Dir ==
  IF pkEv.req.api = "shareList" THEN ShareTree(pkEv.req.data.file_id)
  ELSE OwnTree(pkEv.req.data.folder_id)

\* C24: the listing built from one response is the directory's folder records
\* in the provider's order followed by its file records in the provider's
\* order, each with fid = id and file_name = name, folders flagged dir and
\* files flagged file; a response that leaves a list (or fileListAO) out
\* gives no entry for it.
C24_Snapshot ==
  pkApplied =>
    LET fo == C24_Dir.folderList
        fi == C24_Dir.fileList
    IN  /\ Len(pkFileList) = Len(fo) + Len(fi)
        /\ \A i \in 1..Len(fo) :
             /\ pkFileList[i].id = fo[i].id /\ pkFileList[i].name = fo[i].name
             /\ pkFileList[i].fid = fo[i].id
             /\ pkFileList[i].file_name = fo[i].name
             /\ pkFileList[i].dir = "true" /\ pkFileList[i].file = Undef
        /\ \A i \in 1..Len(fi) :
             LET e == pkFileList[Len(fo) + i]
             IN  /\ e.id = fi[i].id /\ e.name = fi[i].name
                 /\ e.fid = fi[i].id
                 /\ e.file_name = fi[i].name
                 /\ e.file = "true" /\ e.dir = Undef
        /\ (~pkEv.body.ao \/ ~pkEv.body.folders) =>
             \A i \in 1..Len(pkFileList) : pkFileList[i].dir = Undef
        /\ (~pkEv.body.ao \/ ~pkEv.body.files) =>
             \A i \in 1..Len(pkFileList) : pkFileList[i].file = Undef

C24_Witness ==
  /\ pkApplied
  /\ pkEv.req.api = "shareList"
  /\ pkEv.req.data.file_id = "A"
  /\ Len(pkFileList) = 3
  /\ pkFileList[1].fid = "B" /\ pkFileList[1].dir = "true"
  /\ pkFileList[2].fid = "F2" /\ pkFileList[2].file = "true"
  /\ pkFileList[3].fid = "F3" /\ pkFileList[3].file_name = "f3.mkv"

(* ================= further properties of the save-share dialog ========== *)
\* C14: the selection is always a part of the source listing shown: a source
\* listing response leaves it empty, and the save call sends no entry that
\* the source listing does not show.
C14_SelectionInListing ==
  /\ \A i \in 1..Len(selectedFile) :
        \E j \in 1..Len(fileList) : fileList[j].fid = selectedFile[i].fid
  /\ (Applied /\ ev.req.api = "shareList") => selectedFile = << >>
  /\ (ev.op = "commit" /\ ev.calls # << >>) =>
        \A i \in 1..Len(ev.calls[1].data.file_ids) :
           \E j \in 1..Len(fileList) :
              fileList[j].id = ev.calls[1].data.file_ids[i].fileId

\* C15: a failed save call leaves the dialog open, the step, both listings,
\* both path stacks and the selection as they were; and OK in step 1 closes
\* the dialog, reporting success, only in the step in which a save call that
\* was issued returns success.
C15_CommitOutcome ==
  [][/\ (ev'.op = "resolve" /\ ev'.req.api = "save" /\ ~ev'.ok) =>
          /\ open' = open
          /\ currentStep' = currentStep
          /\ fileList' = fileList /\ fileList2' = fileList2
          /\ paths' = paths /\ paths2' = paths2
          /\ selectedFile' = selectedFile
     /\ (open /\ ~open' /\ ev'.op \in {"commit", "resolve"}) =>
          (ev'.op = "resolve" /\ ev'.req.api = "save" /\ ev'.ok)]_vars

\* C16: with the provider the dialog implements, activation sets the step to
\* 0 and empties both listings, both breadcrumbs and the selection in the
\* step that opens the dialog, issues exactly one source listing call, for
\* the root, and no destination listing call is issued before the first
\* advance of the activation.
C16_Activation ==
  cloudType = Tianyiyun =>
    /\ ev.op = "open" =>
          /\ currentStep = 0
          /\ fileList = << >> /\ fileList2 = << >>
          /\ paths = << >> /\ paths2 = << >>
          /\ selectedFile = << >>
          /\ Len(ev.calls) = 1
          /\ ev.calls[1].api = "shareList"
          /\ ev.calls[1].data.file_id = Undef
    /\ ~advanced => \A i \in 1..Len(ev.calls) : ev.calls[i].api # "list"

\* C17: back only changes the step, from 1 to 0: both path stacks, both
\* listings, the selection and the busy flag keep their values and no
\* remote call is issued.
C17_BackPure ==
  [][ev'.op = "back" =>
        /\ currentStep = 1 /\ currentStep' = 0
        /\ paths' = paths /\ paths2' = paths2
        /\ fileList' = fileList /\ fileList2' = fileList2
        /\ selectedFile' = selectedFile
        /\ loading' = loading
        /\ filePaths' = filePaths
        /\ open' = open
        /\ ev'.calls = << >> /\ pending' = pending]_vars

C17_Witness ==
  /\ ev.op = "back"
  /\ currentStep = 0
  /\ paths2 # << >>
  /\ selectedFile # << >>
  /\ fileList # << >>

\* C19: the re-listing issued when a create call succeeds asks for the
\* directory that the create call named as parent_id, whatever listing
\* responses were applied while the create call was outstanding.
C19_RefreshCreatedParent ==
  (ev.op = "resolve" /\ ev.ok /\ ev.req.api = "create") =>
     /\ Len(ev.calls) = 1
     /\ ev.calls[1].api = "list"
     /\ ev.calls[1].data.folder_id = ev.req.data.parent_id

\* the id of the directory the destination breadcrumb ends at
C20_Current == IF paths2 = << >> THEN "-11" ELSE paths2[Len(paths2)].fid

\* C20: target_folder_id of the save call is the id of the last entry of the
\* destination path stack, '-11' when the stack is empty; and in every state
\* the destination listing shows the children of the directory with that id,
\* listing and breadcrumb being replaced together (both are empty between an
\* activation and its first destination response).
C20_TargetIsShown ==
  /\ (ev.op = "commit" /\ ev.calls # << >>) =>
        ev.calls[1].data.target_folder_id = C20_Current
  /\ \/ fileList2 = Listed(OwnTree(C20_Current))
     \/ (fileList2 = << >> /\ paths2 = << >>)

C20_Witness ==
  /\ ev.op = "commit" /\ ev.calls # << >>
  /\ Len(paths2) = 1 /\ paths2[1].fid = "X"
  /\ ev.calls[1].data.target_folder_id = "X"
  /\ fileList2 = Listed(OwnTree("X"))

\* C22: when a create, rename or delete call fails, no listing call is
\* issued, the listings and the path stacks stay as they were, the busy flag
\* is cleared and the handler's promise is rejected.
C22_MutationFailure ==
  [][(ev'.op = "resolve" /\ IsMutation(ev'.req) /\ ~ev'.ok) =>
        /\ ev'.calls = << >>
        /\ Len(pending') = Len(pending) - 1
        /\ \A i \in 1..Len(pending') : \E j \in 1..Len(pending) : pending'[i] = pending[j]
        /\ fileList2' = fileList2 /\ paths2' = paths2
        /\ fileList' = fileList /\ paths' = paths
        /\ filePaths' = filePaths
        /\ loading' = FALSE
        /\ ev'.outcome = "rejected"]_vars

C22_Witness ==
  /\ ev.op = "resolve" /\ IsMutation(ev.req) /\ ~ev.ok
  /\ ev.req.api = "delete"
  /\ ev.outcome = "rejected"
  /\ ~loading
  /\ fileList2 # << >>

=============================================================================
